---- MODULE Spec2Model ----
(***************************************************************************)
(* State-machine model of src/main.ts: one run of the posting job.        *)
(*                                                                         *)
(* main() calls getPostText(), an async function that runs up to its next  *)
(* await in one step.  The callbacks of downloadImage / saveImageToFile    *)
(* are separate steps driven by the HTTP and file-stream events.  Inputs   *)
(* of the environment (credentials, HTTP statuses, stream events, file     *)
(* readability, the inference response, the outcome of the posting-service *)
(* calls) are drawn nondeterministically.                                  *)
(*                                                                         *)
(* Strings whose length or content matters (descriptions) are sequences of *)
(* one-character strings, one element per UTF-16 code unit, as counted by  *)
(* String.prototype.length and String.prototype.slice.                     *)
(***************************************************************************)
EXTENDS Integers, Sequences, FiniteSets, TLC

VARIABLES
    token, bskyHandle, bskyPassword,  \* TRUE iff the environment variable is set (truthy)
    folder,                           \* TRUE iff the 'today' folder exists
    file,                             \* today/todays_image.jpg
    dl, dlStatus, promise, dlError,   \* downloadImage: callback position, status piped, its promise
    pc,                               \* position of main/getPostText
    log,                              \* lines written by console.log / console.error
    result,                           \* the promise returned by getPostText
    exitCode,                         \* -1 while the process runs, else its exit status
    calls,                            \* external requests issued, in order
    outcome,                          \* state of the three posting-service calls
    response,                         \* the inference response received
    descOutcome,                      \* how getImageDescription ended
    rawDescription,                   \* imageDescription before lines 136-140
    imageDescription,                 \* imageDescription after lines 136-140
    postArgs                          \* text and alt handed to agent.post

envVars  == <<token, bskyHandle, bskyPassword>>
dlVars   == <<dl, dlStatus, promise, dlError>>
taskVars == <<pc, log, result, exitCode, calls, outcome, response, descOutcome,
              rawDescription, imageDescription, postArgs>>
vars     == <<envVars, folder, file, dlVars, taskVars>>

---------------------------------------------------------------------------
(* Bounds of the model *)

\* description lengths run over 0..Margin and maxGraphemes-Margin..maxGraphemes+Margin+1
Margin == 2
\* number of character patterns a description is drawn from
NumPatterns == 2

---------------------------------------------------------------------------
(* Program constants and strings *)

maxGraphemes == 300

Ellipsis == <<".", ".", ".">>

NoDescription ==
    <<"N","o"," ","d","e","s","c","r","i","p","t","i","o","n"," ",
      "a","v","a","i","l","a","b","l","e",".">>

Alphabet == <<"a", ".", "b">>

Min(a, b) == IF a <= b THEN a ELSE b

\* the description of length n in pattern k
Desc(n, k) == [i \in 1..n |-> Alphabet[((i * k) % 3) + 1]]

DescLengths == (0..Margin) \cup ((maxGraphemes - Margin)..(maxGraphemes + Margin + 1))

Descriptions == {Desc(n, k) : n \in DescLengths, k \in 1..NumPatterns}

\* String.prototype.slice(start, end) for 0 <= start <= end
Slice(s, start, end) == SubSeq(s, start + 1, Min(end, Len(s)))

Truncate_Inclusive(s) ==
    IF Len(s) >= maxGraphemes THEN Slice(s, 0, maxGraphemes) \o Ellipsis ELSE s

\* lines 136-140
Truncate(s) ==
    IF Len(s) > maxGraphemes THEN Slice(s, 0, maxGraphemes) \o Ellipsis ELSE s

\* a || b on strings: the empty string is falsy
OrElse(a, b) == IF a # <<>> THEN a ELSE b

---------------------------------------------------------------------------
(* The inference response and getImageDescription *)

ErrorMessage == "rate limited"

\* response.status, response.error (absent, null, a string, an object without or
\* with a message field) and response.body (an error body {error: {message}},
\* a body with a non-empty choices array whose first message has `content`, or
\* a body whose choices array is empty)
Responses ==
    {r \in [status   : {"200", "429"},
            topError : {"absent", "null", "string", "object", "objectWithMessage"},
            body     : {"error", "choices", "emptyChoices"},
            content  : Descriptions] :
        r.body # "choices" => r.content = <<>>}

NoResponse == [status |-> "none", topError |-> "absent", body |-> "none", content |-> <<>>]

Returns(v) == [type |-> "return", value |-> v, error |-> "none"]
Throws(e)  == [type |-> "throw", value |-> <<>>, error |-> e]
NoOutcome  == [type |-> "none", value |-> <<>>, error |-> "none"]

\* line 71: the condition under which response.error.message is thrown
HasErrorMessage(r) ==
    /\ r.status # "200"
    /\ r.topError # "absent"                                  \* 'error' in response
    /\ r.topError \in {"null", "object", "objectWithMessage"} \* typeof response.error === 'object'
    /\ r.topError # "null"                                    \* response.error !== null
    /\ r.topError = "objectWithMessage"                       \* 'message' in response.error

\* lines 71-83: getImageDescription after the awaited request has answered
getImageDescriptionResume(r) ==
    IF HasErrorMessage(r) THEN Throws(ErrorMessage)
    ELSE IF r.body \in {"choices", "emptyChoices"}            \* 'choices' in response.body
         THEN IF r.body = "emptyChoices"
              THEN Throws("TypeError")                        \* choices[0] is undefined
              ELSE IF r.content # <<>> THEN Returns(r.content)
                   ELSE Returns(NoDescription)
         ELSE Throws("Unexpected response format")

\* lines 85-94: readFileSync succeeds iff the file is there and can be read
getImageDataUrl(readable) == file.state # "absent" /\ readable

---------------------------------------------------------------------------
(* The task main -> getPostText as functions of its frame *)

Task ==
    [pc |-> pc, log |-> log, result |-> result, exitCode |-> exitCode,
     calls |-> calls, outcome |-> outcome, response |-> response,
     descOutcome |-> descOutcome, rawDescription |-> rawDescription,
     imageDescription |-> imageDescription, postArgs |-> postArgs]

SetTask(t) ==
    /\ pc' = t.pc
    /\ log' = t.log
    /\ result' = t.result
    /\ exitCode' = t.exitCode
    /\ calls' = t.calls
    /\ outcome' = t.outcome
    /\ response' = t.response
    /\ descOutcome' = t.descOutcome
    /\ rawDescription' = t.rawDescription
    /\ imageDescription' = t.imageDescription
    /\ postArgs' = t.postArgs

Log(t, line) == [t EXCEPT !.log = Append(@, line)]

Call(t, op) == [t EXCEPT !.calls = Append(@, op)]

\* getPostText returns: its promise is fulfilled with the text
Returned(t, kind, desc) ==
    [t EXCEPT !.result = [state |-> "returned", kind |-> kind, desc |-> desc, error |-> "none"],
              !.pc = "settled"]

\* getPostText throws: its promise is rejected
Thrown(t, err) ==
    [t EXCEPT !.result = [state |-> "threw", kind |-> "none", desc |-> <<>>, error |-> err],
              !.pc = "settled"]

\* lines 90-93: the catch of getImageDataUrl
ProcessExit(t) ==
    [Log(t, "Could not read") EXCEPT !.exitCode = 1, !.pc = "exited"]

\* lines 129-144: the description is accepted, truncated, and login is requested
Publish(t, value) ==
    LET d  == OrElse(value, NoDescription)
        t1 == Log(t, "Image description received")
        t2 == [t1 EXCEPT !.rawDescription = d, !.imageDescription = Truncate(d)]
    IN  [Call(t2, "login") EXCEPT !.outcome["login"] = "pending", !.pc = "awaitLogin"]

AfterDescription_FallThrough(type) == "publish"

\* lines 128-134: the try/catch around getImageDescription
AfterDescription(type) == IF type = "return" THEN "publish" ELSE "return"

DescriptionSettled(t, oc) ==
    LET t1 == [t EXCEPT !.descOutcome = oc]
    IN  IF AfterDescription(oc.type) = "publish"
        THEN Publish(t1, oc.value)
        ELSE Returned(Log(t1, "Error getting image description."), "errDescription", <<>>)

\* lines 48-56: getImageDescription up to its await
getImageDescription(t, readable) ==
    IF ~token THEN DescriptionSettled(t, Throws("Azure API token is not defined"))
    ELSE IF ~getImageDataUrl(readable) THEN ProcessExit(t)
    ELSE [Call(t, "inference") EXCEPT !.pc = "awaitInference"]

AfterDownload_FallThrough(p) == "describe"

\* lines 118-124: the try/catch around downloadImage
AfterDownload(p) == IF p = "resolved" THEN "describe" ELSE "return"

DownloadSettled(t, readable) ==
    IF AfterDownload(promise) = "describe"
    THEN getImageDescription(
             Log(t, IF promise = "resolved" THEN "Image downloaded to"
                                            ELSE "Error downloading the image."),
             readable)
    ELSE Returned(Log(t, "Error downloading the image."), "errDownload", <<>>)

BskyCredsMissing_OnlyHandle == ~bskyHandle

\* line 112
BskyCredsMissing == ~bskyHandle \/ ~bskyPassword

\* lines 146-147: after login, the file is read again and the blob upload requested
LoginSettled(t, ok, readable) ==
    IF ~ok THEN Thrown([t EXCEPT !.outcome["login"] = "failed"], "login failed")
    ELSE LET t1 == [t EXCEPT !.outcome["login"] = "ok"]
         IN  IF ~getImageDataUrl(readable) THEN ProcessExit(t1)
             ELSE [Call(t1, "uploadBlob") EXCEPT !.outcome["uploadBlob"] = "pending",
                                                  !.pc = "awaitUpload"]

\* lines 147-166: after the upload, agent.post is requested
UploadSettled(t, ok) ==
    IF ~ok THEN Thrown([t EXCEPT !.outcome["uploadBlob"] = "failed"], "uploadBlob failed")
    ELSE [Call(t, "post") EXCEPT !.outcome["uploadBlob"] = "ok",
                                 !.outcome["post"] = "pending",
                                 !.postArgs = [text |-> t.imageDescription,
                                               alt  |-> t.imageDescription],
                                 !.pc = "awaitPost"]

\* lines 166-168
PostSettled(t, ok) ==
    IF ~ok THEN Thrown([t EXCEPT !.outcome["post"] = "failed"], "post failed")
    ELSE Returned([t EXCEPT !.outcome["post"] = "ok"], "post", t.imageDescription)

ExitCodeAfterMain_Signal(state) == IF state = "threw" THEN 1 ELSE 0

\* main returns on both paths of its try/catch; the process then ends normally
ExitCodeAfterMain(state) == 0

\* lines 173-177: main after its await
mainAfterAwait(t) ==
    LET line == IF t.result.state = "returned" THEN "Posted" ELSE "Error posting to Bluesky"
    IN  [Log(t, line) EXCEPT !.pc = "done", !.exitCode = ExitCodeAfterMain(t.result.state)]

\* lines 106-119: getPostText up to its first await
getPostText(t, mkdirOk) ==
    IF ~folder /\ ~mkdirOk THEN Thrown(t, "mkdirSync failed")
    ELSE IF BskyCredsMissing THEN Thrown(t, "Bluesky handle or password is not defined")
    ELSE [Call(t, "GET1") EXCEPT !.pc = "awaitDownload"]

---------------------------------------------------------------------------
(* Initial state: the process has loaded the module, main() is about to run *)

NoResult == [state |-> "pending", kind |-> "none", desc |-> <<>>, error |-> "none"]
NoError  == [kind |-> "none", status |-> 0]
Absent   == [state |-> "absent", status |-> 0]
Stale    == [state |-> "stale", status |-> 0]

Statuses == {200, 302, 404}

Init ==
    /\ token \in BOOLEAN
    /\ bskyHandle \in BOOLEAN
    /\ bskyPassword \in BOOLEAN
    /\ folder \in BOOLEAN
    /\ file \in (IF folder THEN {Absent, Stale} ELSE {Absent})
    /\ dl = "idle"
    /\ dlStatus = 0
    /\ promise = "pending"
    /\ dlError = NoError
    /\ pc = "start"
    /\ log = <<>>
    /\ result = NoResult
    /\ exitCode = -1
    /\ calls = <<>>
    /\ outcome = [op \in {"login", "uploadBlob", "post"} |-> "none"]
    /\ response = NoResponse
    /\ descOutcome = NoOutcome
    /\ rawDescription = <<>>
    /\ imageDescription = <<>>
    /\ postArgs = [text |-> <<>>, alt |-> <<>>]

---------------------------------------------------------------------------
(* Steps of main / getPostText *)

\* lines 171-173 and 106-119: main calls getPostText, which runs to `await downloadImage`
Main ==
    /\ pc = "start"
    /\ \E mkdirOk \in BOOLEAN :
        LET t == getPostText(Task, mkdirOk)
        IN  /\ SetTask(t)
            /\ folder' = (folder \/ mkdirOk)
            /\ dl' = IF t.pc = "awaitDownload" THEN "get1" ELSE dl
    /\ UNCHANGED <<envVars, file, dlStatus, promise, dlError>>

\* lines 119-134 (and 48-56): the await of downloadImage resumes
ResumeAfterDownload ==
    /\ pc = "awaitDownload"
    /\ promise # "pending"
    /\ \E readable \in BOOLEAN : SetTask(DownloadSettled(Task, readable))
    /\ UNCHANGED <<envVars, folder, file, dlVars>>

\* lines 56, 71-83, 129-144: the inference request answers
InferenceAnswered ==
    /\ pc = "awaitInference"
    /\ \E r \in Responses :
        SetTask(DescriptionSettled([Task EXCEPT !.response = r], getImageDescriptionResume(r)))
    /\ UNCHANGED <<envVars, folder, file, dlVars>>

\* line 56: the inference request rejects (transport failure)
InferenceFailed ==
    /\ pc = "awaitInference"
    /\ SetTask(DescriptionSettled(Task, Throws("request failed")))
    /\ UNCHANGED <<envVars, folder, file, dlVars>>

\* lines 144-147
ResumeAfterLogin ==
    /\ pc = "awaitLogin"
    /\ \E ok \in BOOLEAN, readable \in BOOLEAN : SetTask(LoginSettled(Task, ok, readable))
    /\ UNCHANGED <<envVars, folder, file, dlVars>>

\* lines 147-166
ResumeAfterUpload ==
    /\ pc = "awaitUpload"
    /\ \E ok \in BOOLEAN : SetTask(UploadSettled(Task, ok))
    /\ UNCHANGED <<envVars, folder, file, dlVars>>

\* lines 150-168
ResumeAfterPost ==
    /\ pc = "awaitPost"
    /\ \E ok \in BOOLEAN : SetTask(PostSettled(Task, ok))
    /\ UNCHANGED <<envVars, folder, file, dlVars>>

\* lines 173-178
MainResume ==
    /\ pc = "settled"
    /\ SetTask(mainAfterAwait(Task))
    /\ UNCHANGED <<envVars, folder, file, dlVars>>

---------------------------------------------------------------------------
(* Callbacks of downloadImage and saveImageToFile *)

\* resolve / reject of the promise of line 22: only the first call settles it
Settle(how) == promise' = IF promise = "pending" THEN how ELSE promise

\* lines 37-39: the write stream is created and the response piped into it
saveImageToFile(status) ==
    /\ dl' = "piping"
    /\ dlStatus' = status
    /\ UNCHANGED <<promise, dlError, file>>

\* lines 27, 33: .on('error', reject) of either request
RequestError ==
    /\ dl \in {"get1", "get2"}
    /\ dl' = "done"
    /\ Settle("rejected")
    /\ dlError' = [kind |-> "request", status |-> 0]
    /\ UNCHANGED <<envVars, folder, file, dlStatus, taskVars>>

\* lines 23-32: the callback of the first GET
Get1Response ==
    /\ dl = "get1"
    /\ \E status \in Statuses, location \in BOOLEAN :
        IF status = 302 /\ location
        THEN /\ dl' = "get2"
             /\ SetTask(Call(Task, "GET2"))
             /\ UNCHANGED <<dlStatus, promise, dlError, file>>
        ELSE IF status = 200
        THEN /\ saveImageToFile(status)
             /\ UNCHANGED taskVars
        ELSE /\ dl' = "done"
             /\ Settle("rejected")
             /\ dlError' = [kind |-> "status", status |-> status]
             /\ UNCHANGED <<dlStatus, file, taskVars>>
    /\ UNCHANGED <<envVars, folder>>

\* lines 25-26: the callback of the redirected GET
Get2Response ==
    /\ dl = "get2"
    /\ \E status \in Statuses : saveImageToFile(status)
    /\ UNCHANGED <<envVars, folder, taskVars>>

\* lines 40-41: 'finish' of the write stream: the whole body is in the file
FileFinish ==
    /\ dl = "piping"
    /\ dl' = "closing"
    /\ file' = [state |-> "complete", status |-> dlStatus]
    /\ UNCHANGED <<envVars, folder, dlStatus, promise, dlError, taskVars>>

\* line 41: the callback of file.close
FileClosed ==
    /\ dl = "closing"
    /\ dl' = "done"
    /\ Settle("resolved")
    /\ UNCHANGED <<envVars, folder, file, dlStatus, dlError, taskVars>>

\* lines 43-44: 'error' of the write stream, at open or after some bytes
FileError ==
    /\ dl = "piping"
    /\ dl' = "unlinking"
    /\ \E atOpen \in BOOLEAN :
        file' = IF atOpen THEN file ELSE [state |-> "partial", status |-> dlStatus]
    /\ dlError' = [kind |-> "write", status |-> 0]
    /\ UNCHANGED <<envVars, folder, dlStatus, promise, taskVars>>

\* line 44: the callback of fs.unlink
Unlinked ==
    /\ dl = "unlinking"
    /\ dl' = "done"
    /\ file' = Absent
    /\ Settle("rejected")
    /\ UNCHANGED <<envVars, folder, dlStatus, dlError, taskVars>>

\* line 39: the response stream is destroyed before its 'end': pipe() neither
\* ends nor destroys the write stream, and no listener of the response is
\* registered, so neither 'finish' nor 'error' of the file ever fires
ResponseAborted ==
    /\ dl = "piping"
    /\ dl' = "stalled"
    /\ file' = [state |-> "partial", status |-> dlStatus]
    /\ UNCHANGED <<envVars, folder, dlStatus, promise, dlError, taskVars>>

---------------------------------------------------------------------------

Next ==
    \/ Main
    \/ RequestError
    \/ Get1Response
    \/ Get2Response
    \/ FileFinish
    \/ FileClosed
    \/ FileError
    \/ Unlinked
    \/ ResponseAborted
    \/ ResumeAfterDownload
    \/ InferenceAnswered
    \/ InferenceFailed
    \/ ResumeAfterLogin
    \/ ResumeAfterUpload
    \/ ResumeAfterPost
    \/ MainResume

Spec == Init /\ [][Next]_vars

---------------------------------------------------------------------------
(* Properties *)

Range(q) == {q[i] : i \in 1..Len(q)}

Count(q, x) == Cardinality({i \in 1..Len(q) : q[i] = x})

ConfigError == "Bluesky handle or password is not defined"

AcquisitionFailed == promise = "rejected"

DescriptionFailed == descOutcome.type = "throw"

\* C1 as stated: in every finished run in which downloadImage rejected or
\* getImageDescription threw, login, blob upload and post creation were still
\* attempted.
C1_Original ==
    (pc = "done" /\ (AcquisitionFailed \/ DescriptionFailed))
        => {"login", "uploadBlob", "post"} \subseteq Range(calls)

\* C1 amended: a failure of image acquisition or of description generation
\* halts the pipeline: no login, blob upload or post creation is attempted (and
\* no inference request after a failed acquisition), and getPostText returns
\* the placeholder of the failed step to main.
C1_FailureHalts ==
    /\ (AcquisitionFailed \/ DescriptionFailed)
          => Range(calls) \cap {"login", "uploadBlob", "post"} = {}
    /\ AcquisitionFailed => /\ "inference" \notin Range(calls)
                            /\ descOutcome.type = "none"
    /\ (AcquisitionFailed /\ pc \in {"settled", "done"})
          => (result.state = "returned" /\ result.kind = "errDownload")
    /\ (DescriptionFailed /\ pc \in {"settled", "done"})
          => (result.state = "returned" /\ result.kind = "errDescription")

C1_Witness ==
    /\ pc = "done"
    /\ AcquisitionFailed
    /\ dlError.kind = "status"
    /\ result.kind = "errDownload"

\* C2 as stated: the description handed to publication, and the text and the
\* alt text given to agent.post, are at most 300 characters long.
C2_Original ==
    /\ "login" \in Range(calls) => Len(imageDescription) <= maxGraphemes
    /\ "post" \in Range(calls) => /\ Len(postArgs.text) <= maxGraphemes
                                  /\ Len(postArgs.alt) <= maxGraphemes

\* the reference function of the post-processing
Reference(S) ==
    IF Len(S) <= 300 THEN S
    ELSE [i \in 1..303 |-> IF i <= 300 THEN S[i] ELSE "."]

Rank(op) ==
    CASE op = "GET1" -> 1
      [] op = "GET2" -> 2
      [] op = "inference" -> 3
      [] op = "login" -> 4
      [] op = "uploadBlob" -> 5
      [] op = "post" -> 6

\* C4: the steps run strictly one after the other and once: description
\* generation starts only after downloadImage resolved (the file is written),
\* login only after the description was obtained, the upload only after login
\* succeeded, the post only after the upload succeeded; every request is made
\* at most once, in pipeline order, with at most one outstanding, and no post
\* is created after a failed step.
C4_Sequential ==
    /\ (descOutcome.type # "none" \/ "inference" \in Range(calls))
          => (promise = "resolved" /\ file.state = "complete")
    /\ "login" \in Range(calls) => descOutcome.type = "return"
    /\ "uploadBlob" \in Range(calls) => outcome["login"] = "ok"
    /\ "post" \in Range(calls) => outcome["uploadBlob"] = "ok"
    /\ \A op \in Range(calls) : Count(calls, op) = 1
    /\ \A i, j \in 1..Len(calls) : i < j => Rank(calls[i]) < Rank(calls[j])
    /\ Cardinality({op \in DOMAIN outcome : outcome[op] = "pending"}) <= 1
    /\ (\/ AcquisitionFailed
        \/ DescriptionFailed
        \/ outcome["login"] = "failed"
        \/ outcome["uploadBlob"] = "failed") => "post" \notin Range(calls)

C4_Witness ==
    /\ pc = "done"
    /\ outcome["post"] = "ok"
    /\ calls = <<"GET1", "inference", "login", "uploadBlob", "post">>

\* C5 as stated: the error for a missing posting-service identifier or secret
\* is raised only after image acquisition and description generation have
\* been performed.
C5_Original ==
    (result.state = "threw" /\ result.error = ConfigError)
        => ("GET1" \in Range(calls) /\ descOutcome.type # "none")

\* C5 amended: a missing posting-service identifier or secret is raised at
\* the start of getPostText, before image acquisition: no request of any kind
\* is made in such a run; a missing inference API key is raised by
\* getImageDescription, after downloadImage has been performed and resolved.
C5_PointOfCheck ==
    /\ ((~bskyHandle \/ ~bskyPassword) /\ pc # "start")
          => /\ result.state = "threw"
             /\ result.error \in {ConfigError, "mkdirSync failed"}
    /\ (~bskyHandle \/ ~bskyPassword)
          => (calls = <<>> /\ dl = "idle" /\ descOutcome.type = "none")
    /\ result.error = ConfigError => (~bskyHandle \/ ~bskyPassword)
    /\ descOutcome.error = "Azure API token is not defined"
          => /\ ~token
             /\ calls = <<"GET1">> \/ calls = <<"GET1", "GET2">>
             /\ promise = "resolved"
    /\ (~token /\ bskyHandle /\ bskyPassword /\ pc \in {"settled", "done"}
          /\ result.state = "returned")
          => "GET1" \in Range(calls)

C5_Witness ==
    /\ pc = "done"
    /\ token
    /\ bskyHandle /\ ~bskyPassword
    /\ result.error = ConfigError

\* C6 as stated: every failure that is not turned into a placeholder reaches
\* main's catch and is logged there, and no run ends the process with a
\* non-zero exit status.
C6_Original ==
    /\ exitCode \in {-1, 0}
    /\ pc # "exited"

\* C6 amended: every failure that is not turned into a placeholder, except an
\* unreadable image file, rejects getPostText, is logged by main's catch and
\* the process ends normally with status 0; an unreadable image file in
\* getImageDataUrl is logged there and ends the process at once with exit
\* status 1, without reaching main's catch.
C6_Swallowed ==
    /\ exitCode \in {-1, 0, 1}
    /\ pc = "done" => exitCode = 0
    /\ (pc = "done" /\ result.state = "threw")
          => log[Len(log)] = "Error posting to Bluesky"
    /\ (\E op \in DOMAIN outcome : outcome[op] = "failed")
          => (result.state = "threw" /\ pc \in {"settled", "done"})
    /\ exitCode = 1 <=> pc = "exited"
    /\ pc = "exited" => /\ log[Len(log)] = "Could not read"
                        /\ result.state = "pending"
                        /\ "Error posting to Bluesky" \notin Range(log)

C6_Witness ==
    /\ pc = "done"
    /\ outcome["uploadBlob"] = "failed"
    /\ exitCode = 0
    /\ log[Len(log)] = "Error posting to Bluesky"

\* C7 as stated: a response body is streamed to the file only when the
\* response has status 200; every other response that is not a followed
\* redirect rejects, and downloadImage never resolves after writing the body
\* of a non-success response.
C7_Original ==
    /\ dl \in {"piping", "closing", "unlinking", "stalled"} => dlStatus = 200
    /\ file.state \in {"partial", "complete"} => file.status = 200
    /\ promise = "resolved" => (file.state = "complete" /\ file.status = 200)

\* an error object with a message field, on the response or in its JSON body
CarriesErrorMessage(r) == r.topError = "objectWithMessage" \/ r.body = "error"

\* the decision table of the description step
Table(r) ==
    IF r.status # "200" /\ CarriesErrorMessage(r) THEN Throws(ErrorMessage)
    ELSE IF r.body = "choices" /\ r.content # <<>> THEN Returns(r.content)
    ELSE IF r.body = "error" THEN Throws("Unexpected response format")
    ELSE Returns(NoDescription)

\* C8 as stated: getImageDescription classifies every inference response as
\* the decision table does (an empty choices array is outside the table).
C8_Original ==
    (response # NoResponse /\ response.body # "emptyChoices")
        => descOutcome = Table(response)

\* C9 as stated: whenever nothing is left to run, the promise of a started
\* downloadImage has settled and main has returned (or the process exited).
C9_Original ==
    (~ENABLED Next) =>
        /\ "GET1" \in Range(calls) => promise # "pending"
        /\ pc \in {"done", "exited"}

\* C10 as stated: 'Posted' is logged only in runs in which agent.post was
\* called and succeeded.
C10_Original ==
    "Posted" \in Range(log) => ("post" \in Range(calls) /\ outcome["post"] = "ok")

====
